---------------------------- MODULE Spec2Model ----------------------------
(***************************************************************************)
(* The NFL fantasy pipeline of nfl-fantasy-data-collection-analysis.py:    *)
(* the Collector script (scrape_nfl_data, scrape_table and its loop), the  *)
(* Merger script (load_and_preprocess_data, scale_features and its loop)   *)
(* and the ranking of the Analyzer script.  The three scripts only share   *)
(* the files under data/.                                                  *)
(*                                                                         *)
(* A DataFrame is [cols |-> sequence of column names, rows |-> sequence of *)
(* rows], a row being a function from the column names to cells.  A cell   *)
(* is NaN, a number or a string.  Numbers are exact: Num holds the value   *)
(* in hundredths (c), so that the weights 0.04 and 0.1 stay integers, and  *)
(* a standardized value is kept as d * sqrt(n) / sqrt(ss) (StandardScale). *)
(* Floating-point rounding is not modelled.                                *)
(***************************************************************************)
EXTENDS Integers, Sequences, FiniteSets, TLC

VARIABLES
    web,             \* what pd.read_html gives for each category page of the provider
    dirs,            \* the directories that exist
    files,           \* path -> the CSV text of the file, for the files that exist
    cpc,             \* Collector: position in the script
    cyear,           \* Collector: the loop variable year
    ccat,            \* Collector: index in Categories of the next fetch or write
    scraped,         \* Collector: the DataFrames scrape_table returned for this year so far
    written,         \* Collector: the paths this run has written
    mpc,             \* Merger: position in the script
    myear,           \* Merger: the loop variable year
    all_players,     \* Merger: the list all_players
    all_players_df,  \* Merger: all_players_df, scaled in place by scale_features
    apc,             \* Analyzer: position in the script
    df,              \* Analyzer: the DataFrame df
    top_players      \* Analyzer: the Series top_players, <<Player, mean>> entries

vars == <<web, dirs, files, cpc, cyear, ccat, scraped, written, mpc, myear,
          all_players, all_players_df, apc, df, top_players>>

collectorVars == <<cpc, cyear, ccat, scraped, written>>
mergerVars == <<mpc, myear, all_players, all_players_df>>
analyzerVars == <<apc, df, top_players>>

-----------------------------------------------------------------------------
(* Bounds of the model *)

\* The largest whole number a raw CSV cell holds.
MaxStat == 300

\* The most rows a season's category table holds in SpecMerge.
MaxRows == 2

\* The most rows the varied page of SpecCollect holds.
MaxPageRows == 3

\* The most players the dataset of SpecAnalyze holds.
MaxPlayers == 25

\* The most rows the dataset of SpecAnalyze holds beyond one row per player.
MaxExtra == 2

-----------------------------------------------------------------------------
(* Program constants *)

current_year == 2023

\* range(current_year - 4, current_year + 1)
Years == (current_year - 4) .. current_year

\* .head(20)
TopN == 20

Categories == <<"passing", "rushing", "receiving", "defense">>

MergedCategories == <<"passing", "rushing", "receiving">>

-----------------------------------------------------------------------------
(* Cells *)

NaN == [t |-> "nan"]

Num(n) == [t |-> "num", c |-> 100 * n]

\* A number given in hundredths.
Centi(c) == [t |-> "num", c |-> c]

Str(s) == [t |-> "str", s |-> s]

\* A standardized value: d * sqrt(n) / sqrt(ss), with ss > 0 and n > 0.
Std(d, ss, n) == [t |-> "std", d |-> d, ss |-> ss, n |-> n]

IsNaN(x) == x.t = "nan"

IsNumber(x) == x.t \in {"num", "std"}

-----------------------------------------------------------------------------
(* Sequences *)

Range(s) == {s[i] : i \in DOMAIN s}

RECURSIVE SelectIdx(_, _)
\* The indices of s, ascending, that are in the set keep.
SelectIdx(n, keep) ==
    IF n = 0 THEN <<>>
    ELSE IF n \in keep THEN Append(SelectIdx(n - 1, keep), n)
         ELSE SelectIdx(n - 1, keep)

RECURSIVE Flatten(_)
Flatten(ss) == IF ss = <<>> THEN <<>> ELSE Head(ss) \o Flatten(Tail(ss))

RECURSIVE SumSeq(_)
SumSeq(s) == IF s = <<>> THEN 0 ELSE Head(s) + SumSeq(Tail(s))

-----------------------------------------------------------------------------
(* DataFrames *)

\* The function f with every value worked out (TLC keeps [x \in S |-> e] as
\* the expression e and works it out anew at each application).
Evaluated(f) == f @@ <<>>

DataFrame(cols, rows) ==
    [cols |-> cols, rows |-> Evaluated([i \in DOMAIN rows |-> Evaluated(rows[i])])]

\* df[c], the column c as the sequence of its cells.
Column(frame, c) == Evaluated([i \in DOMAIN frame.rows |-> frame.rows[i][c]])

\* The rows of frame at the indices idx, in that order.
Take(frame, idx) ==
    DataFrame(frame.cols, [k \in DOMAIN idx |-> frame.rows[idx[k]]])

-----------------------------------------------------------------------------
(* CSV text: DataFrame.to_csv(index=False) and pd.read_csv.  A text cell is *)
(* Txt(s); a number that is not a whole number of 0..MaxStat is written    *)
(* with all its digits and read back unchanged, and stands for its text.   *)

Txt(s) == [t |-> "txt", s |-> s]

Numerals == [n \in 0 .. MaxStat |-> ToString(n)]

NumeralSet == Range(Numerals)

\* The whole number a numeral reads as.
NumeralValue == [s \in NumeralSet |-> CHOOSE n \in 0 .. MaxStat : Numerals[n] = s]

ValueOf(s) == NumeralValue[s]

\* The texts read_csv takes for a missing value (its default na_values).
NAValues == {"", "NA", "N/A", "NaN", "nan", "null", "NULL", "n/a", "<NA>", "#N/A"}

CellText(x) ==
    CASE x.t = "nan" -> Txt("")
      [] x.t = "str" -> Txt(x.s)
      [] x.t = "num" -> IF x.c % 100 = 0 /\ (x.c \div 100) \in 0 .. MaxStat
                        THEN Txt(Numerals[x.c \div 100])
                        ELSE x
      [] OTHER -> x

to_csv(frame) ==
    DataFrame(frame.cols,
              [i \in DOMAIN frame.rows |->
                  [c \in Range(frame.cols) |-> CellText(frame.rows[i][c])]])

IsNAText(x) == x.t = "txt" /\ x.s \in NAValues

IsNumberText(x) == x.t # "txt" \/ x.s \in NumeralSet

\* read_csv infers one type per column: numbers when every cell that is not
\* missing reads as a number, strings otherwise.
NumericTextColumn(text, c) ==
    \A i \in DOMAIN text.rows :
        IsNAText(text.rows[i][c]) \/ IsNumberText(text.rows[i][c])

ParseCell(x, numeric) ==
    IF IsNAText(x) THEN NaN
    ELSE IF x.t # "txt" THEN x
    ELSE IF numeric THEN Num(ValueOf(x.s))
    ELSE Str(x.s)

read_csv(text) ==
    LET numeric == {c \in Range(text.cols) : NumericTextColumn(text, c)}
    IN  DataFrame(text.cols,
                  [i \in DOMAIN text.rows |->
                      [c \in Range(text.cols) |->
                          ParseCell(text.rows[i][c], c \in numeric)]])

-----------------------------------------------------------------------------
(* The filesystem *)

RawDir(year) == "data/raw/" \o ToString(year)

RawFile(year, cat) == RawDir(year) \o "/" \o cat \o ".csv"

ProcessedDir == "data/processed"

ProcessedFile == "data/processed/all_players_scaled.csv"

\* os.makedirs(f'data/raw/{year}', exist_ok=True): the directory and its parents.
makedirs(ds, year) == ds \cup {"data", "data/raw", RawDir(year)}

\* The files after text is written to path (created or overwritten).
WriteFile(fs, path, text) ==
    [p \in DOMAIN fs \cup {path} |-> IF p = path THEN text ELSE fs[p]]

-----------------------------------------------------------------------------
(* Collector *)

\* scrape_table as a bug would have it: the empty rows are kept.
scrape_table_keep_empty(parsed) ==
    LET kept == {i \in DOMAIN parsed.rows : parsed.rows[i]["Player"] # Str("Player")}
    IN  Take(parsed, SelectIdx(Len(parsed.rows), kept))

\* df = df[df['Player'] != 'Player']; df = df.dropna(how='all')
scrape_table(parsed) ==
    LET kept == {i \in DOMAIN parsed.rows : parsed.rows[i]["Player"] # Str("Player")}
        full == {i \in kept : \E c \in Range(parsed.cols) : ~IsNaN(parsed.rows[i][c])}
    IN  Take(parsed, SelectIdx(Len(parsed.rows), full))

Running == cpc \in {"scrape", "makedirs", "to_csv"}
           \/ mpc \in {"load", "concat", "scale", "save"}
           \/ apc \in {"corr", "rank"}

\* python collect.py
CollectorStart ==
    /\ ~Running
    /\ cpc' = "scrape"
    /\ cyear' = current_year - 4
    /\ ccat' = 1
    /\ scraped' = <<>>
    /\ written' = {}
    /\ UNCHANGED <<web, dirs, files, mergerVars, analyzerVars>>

\* The fetch as a bug would have it: a failure is swallowed and the category
\* gets an empty table.
ScrapeSwallow ==
    /\ cpc = "scrape"
    /\ \E ok \in BOOLEAN :
          LET page == web[cyear][Categories[ccat]]
          IN  scraped' = Append(scraped,
                                IF ok /\ page.found /\ "Player" \in Range(page.table.cols)
                                THEN scrape_table(page.table)
                                ELSE DataFrame(<<"Player">>, <<>>))
    /\ ccat' = IF ccat = Len(Categories) THEN 1 ELSE ccat + 1
    /\ cpc' = IF ccat = Len(Categories) THEN "makedirs" ELSE "scrape"
    /\ UNCHANGED <<web, dirs, files, cyear, written, mergerVars, analyzerVars>>

\* One scrape_table call of scrape_nfl_data(year): the request, the lookup of
\* the table and read_html raise when the page or its table is not there.
Scrape ==
    /\ cpc = "scrape"
    /\ \E ok \in BOOLEAN :
          LET page == web[cyear][Categories[ccat]]
          IN  IF ok /\ page.found /\ "Player" \in Range(page.table.cols)
              THEN /\ scraped' = Append(scraped, scrape_table(page.table))
                   /\ ccat' = IF ccat = Len(Categories) THEN 1 ELSE ccat + 1
                   /\ cpc' = IF ccat = Len(Categories) THEN "makedirs" ELSE "scrape"
              ELSE /\ cpc' = "aborted"
                   /\ UNCHANGED <<scraped, ccat>>
    /\ UNCHANGED <<web, dirs, files, cyear, written, mergerVars, analyzerVars>>

Makedirs ==
    /\ cpc = "makedirs"
    /\ dirs' = makedirs(dirs, cyear)
    /\ cpc' = "to_csv"
    /\ UNCHANGED <<web, files, cyear, ccat, scraped, written, mergerVars, analyzerVars>>

\* passing.to_csv(...), rushing.to_csv(...), receiving.to_csv(...),
\* defense.to_csv(...); after the last one the loop goes to the next year.
ToCsv ==
    /\ cpc = "to_csv"
    /\ LET path == RawFile(cyear, Categories[ccat])
       IN  /\ files' = WriteFile(files, path, to_csv(scraped[ccat]))
           /\ written' = written \cup {path}
    /\ IF ccat < Len(Categories)
       THEN /\ ccat' = ccat + 1
            /\ UNCHANGED <<cpc, cyear, scraped>>
       ELSE /\ ccat' = 1
            /\ scraped' = <<>>
            /\ IF cyear < current_year
               THEN cyear' = cyear + 1 /\ cpc' = "scrape"
               ELSE cyear' = cyear /\ cpc' = "done"
    /\ UNCHANGED <<web, dirs, mergerVars, analyzerVars>>

CollectorNext == CollectorStart \/ Scrape \/ Makedirs \/ ToCsv

-----------------------------------------------------------------------------
(* pandas.merge(left, right, on=..., how=..., suffixes=...) *)

\* The strings that occur as join keys, in lexicographic order.
PlayerName(i) == (IF i < 10 THEN "P0" ELSE "P") \o ToString(i)

Lexicon ==
    <<"0", "Al RB", "KC", "NE">> \o [i \in 1 .. MaxPlayers |-> PlayerName(i)] \o <<"Tom QB">>

\* The place of a key cell in the sorted order of the result; NaN sorts last.
KeyRank(x) ==
    IF x.t = "str" /\ x.s \in Range(Lexicon)
    THEN CHOOSE i \in DOMAIN Lexicon : Lexicon[i] = x.s
    ELSE Len(Lexicon) + 1

RECURSIVE KeyLess(_, _)
KeyLess(k1, k2) ==
    /\ k1 # <<>>
    /\ \/ KeyRank(Head(k1)) < KeyRank(Head(k2))
       \/ Head(k1) = Head(k2) /\ KeyLess(Tail(k1), Tail(k2))

RECURSIVE SortKeys(_)
SortKeys(ks) ==
    IF ks = {} THEN <<>>
    ELSE LET k == CHOOSE x \in ks : \A y \in ks : ~KeyLess(y, x)
         IN  <<k>> \o SortKeys(ks \ {k})

KeyOf(row, on) == [j \in DOMAIN on |-> row[on[j]]]

\* The suffixes merge uses when none are passed.
DefaultSuffixes == <<"_x", "_y">>

\* how is "outer" (the keys of both sides), "left" or "inner".
merge(left, right, on, how, suffixes) ==
    LET overlap == (Range(left.cols) \cap Range(right.cols)) \ Range(on)
        rrest == SelectSeq(right.cols, LAMBDA c : c \notin Range(on))
        lname(c) == IF c \in overlap THEN c \o suffixes[1] ELSE c
        rname(c) == IF c \in overlap THEN c \o suffixes[2] ELSE c
        cols == [j \in DOMAIN left.cols |-> lname(left.cols[j])]
                \o [j \in DOMAIN rrest |-> rname(rrest[j])]
        lkeys == {KeyOf(r, on) : r \in Range(left.rows)}
        rkeys == {KeyOf(r, on) : r \in Range(right.rows)}
        keys == CASE how = "outer" -> lkeys \cup rkeys
                  [] how = "left" -> lkeys
                  [] OTHER -> lkeys \cap rkeys
        order == SortKeys(keys)
        lidx(k) == SelectIdx(Len(left.rows),
                             {i \in DOMAIN left.rows : KeyOf(left.rows[i], on) = k})
        ridx(k) == SelectIdx(Len(right.rows),
                             {i \in DOMAIN right.rows : KeyOf(right.rows[i], on) = k})
        \* The cell of result column number a in the result row of left row i
        \* and right row j with key k; 0 is no row.
        cell(k, i, j, a) ==
            IF a <= Len(left.cols)
            THEN IF left.cols[a] \in Range(on)
                 THEN k[CHOOSE b \in DOMAIN on : on[b] = left.cols[a]]
                 ELSE IF i = 0 THEN NaN ELSE left.rows[i][left.cols[a]]
            ELSE IF j = 0 THEN NaN ELSE right.rows[j][rrest[a - Len(left.cols)]]
        row(k, i, j) ==
            [n \in Range(cols) |-> cell(k, i, j, CHOOSE a \in DOMAIN cols : cols[a] = n)]
        group(k) ==
            LET li == lidx(k)
                ri == ridx(k)
            IN  IF li = <<>> THEN [b \in DOMAIN ri |-> row(k, 0, ri[b])]
                ELSE IF ri = <<>> THEN [a \in DOMAIN li |-> row(k, li[a], 0)]
                ELSE [p \in 1 .. Len(li) * Len(ri) |->
                         row(k, li[((p - 1) \div Len(ri)) + 1], ri[((p - 1) % Len(ri)) + 1])]
    IN  DataFrame(cols, Flatten([g \in DOMAIN order |-> group(order[g])]))

\* fillna as a bug would have it: only the columns without text are filled.
fillna_numeric(frame) ==
    LET num == {c \in Range(frame.cols) :
                   \A i \in DOMAIN frame.rows : frame.rows[i][c].t # "str"}
    IN  DataFrame(frame.cols,
                  [i \in DOMAIN frame.rows |->
                      [c \in Range(frame.cols) |->
                          IF c \in num /\ IsNaN(frame.rows[i][c])
                          THEN Num(0) ELSE frame.rows[i][c]]])

\* players.fillna(0)
fillna(frame) ==
    DataFrame(frame.cols,
              [i \in DOMAIN frame.rows |->
                  [c \in Range(frame.cols) |->
                      IF IsNaN(frame.rows[i][c]) THEN Num(0) ELSE frame.rows[i][c]]])

\* frame[c] = the value of cells[i] in row i (a new last column, or c replaced).
Assign(frame, c, cells) ==
    DataFrame(IF c \in Range(frame.cols) THEN frame.cols ELSE Append(frame.cols, c),
              [i \in DOMAIN frame.rows |->
                  [n \in Range(frame.cols) \cup {c} |->
                      IF n = c THEN cells[i] ELSE frame.rows[i][n]]])

-----------------------------------------------------------------------------
(* Merger *)

\* The columns the scoring expression reads.
ScoringColumns ==
    <<"Yds_pass", "TD_pass", "Int", "Yds_rush", "TD_rush", "Rec", "Yds", "TD">>

\* The weights of the scoring expression, in hundredths of a point.
Weights == <<4, 400, -200, 10, 600, 100, 10, 600>>

\* The whole number a cell of a raw table holds.
Value(x) == x.c \div 100

\* The scoring as a bug would have it: the receiving yards are read from the
\* rushing column.
FantasyPointsRushYards(r) ==
    Centi(SumSeq([k \in DOMAIN ScoringColumns |->
                     Weights[k] * Value(r[IF ScoringColumns[k] = "Yds" THEN "Yds_rush"
                                          ELSE ScoringColumns[k]])]))

\* players['Yds_pass'] * 0.04 + ... + players['TD'] * 6, for one row.
FantasyPoints(r) ==
    Centi(SumSeq([k \in DOMAIN ScoringColumns |->
                     Weights[k] * Value(r[ScoringColumns[k]])]))

\* pd.merge(passing, rushing, on=['Player', 'Tm'], how='outer', suffixes=...)
MergePassingRushing(passing, rushing) ==
    merge(passing, rushing, <<"Player", "Tm">>, "outer", <<"_pass", "_rush">>)

\* The second join as bugs would have it: a left join, and a join that gives
\* both sides of a collision the plain name.
MergeReceivingLeft(players, receiving) ==
    merge(players, receiving, <<"Player", "Tm">>, "left", DefaultSuffixes)

MergeReceivingUnsuffixed(players, receiving) ==
    merge(players, receiving, <<"Player", "Tm">>, "outer", <<"", "">>)

\* pd.merge(players, receiving, on=['Player', 'Tm'], how='outer')
MergeReceiving(players, receiving) ==
    merge(players, receiving, <<"Player", "Tm">>, "outer", DefaultSuffixes)

\* The outcome of a call that did not raise, and of one that did.
Returned(frame) == [raised |-> FALSE, frame |-> frame]

Raised == [raised |-> TRUE, frame |-> DataFrame(<<>>, <<>>)]

\* The table read_csv gives for a raw file.
RawTable(fs, year, cat) == read_csv(fs[RawFile(year, cat)])

\* load_and_preprocess_data(year).  It raises on a file that is not there, on
\* a table without the key columns, and on a merged table without a scored
\* column or with text in one.
load_and_preprocess_data(fs, year) ==
    IF \E k \in DOMAIN MergedCategories :
          \/ RawFile(year, MergedCategories[k]) \notin DOMAIN fs
          \/ ~({"Player", "Tm"} \subseteq Range(fs[RawFile(year, MergedCategories[k])].cols))
    THEN Raised
    ELSE LET merged == MergeReceiving(MergePassingRushing(RawTable(fs, year, "passing"),
                                                          RawTable(fs, year, "rushing")),
                                      RawTable(fs, year, "receiving"))
             players == fillna(merged)
         IN  IF /\ Range(ScoringColumns) \subseteq Range(players.cols)
                /\ \A i \in DOMAIN players.rows : \A c \in Range(ScoringColumns) :
                      players.rows[i][c].t = "num"
             THEN Returned(Assign(players, "FantasyPoints",
                                  [i \in DOMAIN players.rows |->
                                      FantasyPoints(players.rows[i])]))
             ELSE Raised

\* The stamp as a bug would have it: the year of the run, not of the season.
StampCurrentYear(players, year) ==
    Assign(players, "Year", [i \in DOMAIN players.rows |-> Num(current_year)])

\* players['Year'] = year
StampYear(players, year) ==
    Assign(players, "Year", [i \in DOMAIN players.rows |-> Num(year)])

RECURSIVE UnionCols(_)
\* The columns of the frames, each once, in the order of first appearance.
UnionCols(frames) ==
    IF frames = <<>> THEN <<>>
    ELSE LET before == UnionCols(SubSeq(frames, 1, Len(frames) - 1))
         IN  before \o SelectSeq(frames[Len(frames)].cols,
                                 LAMBDA c : c \notin Range(before))

\* pd.concat(frames, ignore_index=True)
concat(frames) ==
    LET cols == UnionCols(frames)
        widen(f) == [i \in DOMAIN f.rows |->
                        [c \in Range(cols) |->
                            IF c \in Range(f.cols) THEN f.rows[i][c] ELSE NaN]]
    IN  DataFrame(cols, Flatten([k \in DOMAIN frames |-> widen(frames[k])]))

\* df.select_dtypes(include=[np.number]).columns: the columns without a string.
numeric_cols(frame) ==
    {c \in Range(frame.cols) : \A i \in DOMAIN frame.rows : frame.rows[i][c].t # "str"}

Abs(x) == IF x < 0 THEN -x ELSE x

RECURSIVE GCD(_, _)
GCD(a, b) == IF b = 0 THEN a ELSE GCD(b, a % b)

RECURSIVE GCDSeq(_)
GCDSeq(s) == IF s = <<>> THEN 0 ELSE GCD(Abs(Head(s)), GCDSeq(Tail(s)))

\* The scaler as a bug would have it: the sample standard deviation (n - 1).
StandardScaleSample(cells) ==
    LET n == Len(cells)
        S == SumSeq([i \in DOMAIN cells |-> cells[i].c])
        dev == Evaluated([i \in DOMAIN cells |-> n * cells[i].c - S])
        g == GCDSeq(dev)
        ss == SumSeq([i \in DOMAIN cells |-> (dev[i] \div g) * (dev[i] \div g)])
    IN  Evaluated([i \in DOMAIN cells |->
                      IF g = 0 THEN Centi(0) ELSE Std(dev[i] \div g, ss, n - 1)])

\* StandardScaler().fit_transform on one column.  With n the number of cells
\* that are not NaN and S their sum, x - mean is dev / n for dev = n*x - S, the
\* variance is (sum of dev^2) / n^3, and (x - mean) / sqrt(variance) is
\* dev * sqrt(n) / sqrt(sum of dev^2); the devs are divided by their gcd, which
\* leaves the value as it is.  A column of variance 0 is divided by 1, which
\* leaves x - mean = 0.  NaN cells are skipped and stay NaN.
StandardScale(cells) ==
    LET idx == {i \in DOMAIN cells : ~IsNaN(cells[i])}
        n == Cardinality(idx)
        S == SumSeq([i \in DOMAIN cells |-> IF i \in idx THEN cells[i].c ELSE 0])
        dev == Evaluated([i \in DOMAIN cells |->
                             IF i \in idx THEN n * cells[i].c - S ELSE 0])
        g == GCDSeq(dev)
        d == Evaluated([i \in DOMAIN cells |-> IF g = 0 THEN 0 ELSE dev[i] \div g])
        ss == SumSeq([i \in DOMAIN cells |-> d[i] * d[i]])
    IN  Evaluated([i \in DOMAIN cells |->
                      IF i \notin idx THEN NaN
                      ELSE IF ss = 0 THEN Centi(0)
                      ELSE Std(d[i], ss, n)])

scale_features(frame) ==
    LET num == numeric_cols(frame)
        scaled == Evaluated([c \in num |-> StandardScale(Column(frame, c))])
    IN  DataFrame(frame.cols,
                  [i \in DOMAIN frame.rows |->
                      [c \in Range(frame.cols) |->
                          IF c \in num THEN scaled[c][i] ELSE frame.rows[i][c]]])

\* python preprocess.py
MergerStart ==
    /\ ~Running
    /\ mpc' = "load"
    /\ myear' = current_year - 4
    /\ all_players' = <<>>
    /\ all_players_df' = DataFrame(<<>>, <<>>)
    /\ UNCHANGED <<web, dirs, files, collectorVars, analyzerVars>>

\* One turn of the loop: load_and_preprocess_data(year), the Year column, append.
Load ==
    /\ mpc = "load"
    /\ LET players == load_and_preprocess_data(files, myear)
       IN  IF ~players.raised
           THEN /\ all_players' = Append(all_players, StampYear(players.frame, myear))
                /\ IF myear < current_year
                   THEN myear' = myear + 1 /\ mpc' = "load"
                   ELSE myear' = myear /\ mpc' = "concat"
           ELSE /\ mpc' = "aborted"
                /\ UNCHANGED <<myear, all_players>>
    /\ UNCHANGED <<web, dirs, files, all_players_df, collectorVars, analyzerVars>>

Concat ==
    /\ mpc = "concat"
    /\ all_players_df' = concat(all_players)
    /\ mpc' = "scale"
    /\ UNCHANGED <<web, dirs, files, myear, all_players, collectorVars, analyzerVars>>

\* scale_features(all_players_df); the scaler raises on a dataset without rows.
Scale ==
    /\ mpc = "scale"
    /\ IF all_players_df.rows # <<>>
       THEN /\ all_players_df' = scale_features(all_players_df)
            /\ mpc' = "save"
       ELSE /\ mpc' = "aborted"
            /\ UNCHANGED all_players_df
    /\ UNCHANGED <<web, dirs, files, myear, all_players, collectorVars, analyzerVars>>

\* all_players_scaled.to_csv('data/processed/all_players_scaled.csv'): to_csv
\* raises when the directory is not there; nothing in the scripts creates it.
Save ==
    /\ mpc = "save"
    /\ IF ProcessedDir \in dirs
       THEN /\ files' = WriteFile(files, ProcessedFile, to_csv(all_players_df))
            /\ mpc' = "done"
       ELSE /\ mpc' = "aborted"
            /\ UNCHANGED files
    /\ UNCHANGED <<web, dirs, myear, all_players, all_players_df,
                   collectorVars, analyzerVars>>

MergerNext == MergerStart \/ Load \/ Concat \/ Scale \/ Save

-----------------------------------------------------------------------------
(* Analyzer: the ranking *)

\* A number of the FantasyPoints column as an integer: the column holds either
\* plain numbers or standardized values of one scale, which compare as their d.
Mag(x) == IF x.t = "std" THEN x.d ELSE x.c

\* df.groupby('Player')['FantasyPoints'].mean(): one entry per Player value
\* (NaN is no group), in the order of the keys; the mean is sum / n, and NaN
\* (n = 0) when the group holds no number.
groupby_mean(frame) ==
    LET keys == {frame.rows[i]["Player"] : i \in DOMAIN frame.rows} \ {NaN}
        order == SortKeys({<<k>> : k \in keys})
        entry(k) ==
            LET idx == {i \in DOMAIN frame.rows :
                           /\ frame.rows[i]["Player"] = k
                           /\ ~IsNaN(frame.rows[i]["FantasyPoints"])}
            IN  [Player |-> k,
                 sum |-> SumSeq([i \in DOMAIN frame.rows |->
                                    IF i \in idx
                                    THEN Mag(frame.rows[i]["FantasyPoints"]) ELSE 0]),
                 n |-> Cardinality(idx)]
    IN  Evaluated([g \in DOMAIN order |-> entry(order[g][1])])

\* Whether mean a sorts before mean b in descending order; NaN sorts last.
MeanBefore(a, b) == a.n > 0 /\ (b.n = 0 \/ a.sum * b.n > b.sum * a.n)

RECURSIVE InsertDesc(_, _)
InsertDesc(x, sorted) ==
    IF sorted = <<>> THEN <<x>>
    ELSE IF MeanBefore(x, Head(sorted)) THEN <<x>> \o sorted
    ELSE <<Head(sorted)>> \o InsertDesc(x, Tail(sorted))

RECURSIVE sort_values(_)
\* .sort_values(ascending=False); equal means keep the order they come in.
sort_values(s) ==
    IF s = <<>> THEN <<>>
    ELSE InsertDesc(s[Len(s)], sort_values(SubSeq(s, 1, Len(s) - 1)))

Reverse(s) == [i \in DOMAIN s |-> s[Len(s) + 1 - i]]

head(s, n) == SubSeq(s, 1, IF Len(s) < n THEN Len(s) ELSE n)

\* The ranking as a bug would have it: head(20) before the sort.
TopPlayersHeadFirst(frame, rev) ==
    LET means == groupby_mean(frame)
    IN  sort_values(head(IF rev THEN Reverse(means) ELSE means, TopN))

\* df.groupby('Player')['FantasyPoints'].mean().sort_values(ascending=False).head(20);
\* the sort is not stable, so equal means come in either order of the keys.
TopPlayers(frame, rev) ==
    LET means == groupby_mean(frame)
    IN  head(sort_values(IF rev THEN Reverse(means) ELSE means), TopN)

\* python analyze.py: df = pd.read_csv('data/processed/all_players_scaled.csv')
AnalyzerStart ==
    /\ ~Running
    /\ top_players' = <<>>
    /\ IF ProcessedFile \in DOMAIN files
       THEN /\ df' = read_csv(files[ProcessedFile])
            /\ apc' = "corr"
       ELSE /\ df' = DataFrame(<<>>, <<>>)
            /\ apc' = "aborted"
    /\ UNCHANGED <<web, dirs, files, collectorVars, mergerVars>>

\* sns.heatmap(df.corr(), ...): corr() leaves the non-numeric columns out in
\* the pandas releases before 2.0 and raises on them from 2.0 on.
Heatmap ==
    /\ apc = "corr"
    /\ \E numeric_only \in BOOLEAN :
          apc' = IF numeric_only \/ Range(df.cols) \subseteq numeric_cols(df)
                 THEN "rank" ELSE "aborted"
    /\ UNCHANGED <<web, dirs, files, df, top_players, collectorVars, mergerVars>>

\* top_players = ...; raises without the two columns or on a FantasyPoints
\* column of strings.
Rank ==
    /\ apc = "rank"
    /\ IF /\ {"Player", "FantasyPoints"} \subseteq Range(df.cols)
          /\ "FantasyPoints" \in numeric_cols(df)
       THEN /\ \E rev \in BOOLEAN : top_players' = TopPlayers(df, rev)
            /\ apc' = "done"
       ELSE /\ apc' = "aborted"
            /\ UNCHANGED top_players
    /\ UNCHANGED <<web, dirs, files, df, collectorVars, mergerVars>>

-----------------------------------------------------------------------------
(* Inputs: the provider's tables *)

\* The columns of a category table; with extras, the tables also hold a
\* position (text) and, for rushing and receiving, a fumble count.
Schema(cat, extras) ==
    <<"Player", "Tm">>
    \o (IF extras /\ cat # "defense" THEN <<"Pos">> ELSE <<>>)
    \o (CASE cat = "passing" -> <<"Yds", "TD", "Int">>
          [] cat = "rushing" -> <<"Yds", "TD">>
          [] cat = "receiving" -> <<"Rec", "Yds", "TD">>
          [] OTHER -> <<"Int">>)
    \o (IF extras /\ cat \in {"rushing", "receiving"} THEN <<"Fmb">> ELSE <<>>)

\* The row of a table with the given columns holding vals, a function from
\* column names to cells that covers them.
Row(cols, vals) == [c \in Range(cols) |-> vals[c]]

Cells(player, tm, pos, stats, fmb) ==
    [Player |-> Str(player), Tm |-> Str(tm), Pos |-> pos, Fmb |-> fmb] @@ stats

\* The two rows each offensive table of the varied season draws from.  Al RB
\* of NE has the statistics 300, 2, 1, 20, 0, 5, 50, 1 across the three tables.
RowChoices(cat, extras) ==
    LET cols == Schema(cat, extras)
    IN  CASE cat = "passing" ->
               {Row(cols, Cells("Tom QB", "NE", Str("QB"),
                                [Yds |-> Num(25), TD |-> Num(1), Int |-> NaN], NaN)),
                Row(cols, Cells("Al RB", "NE", NaN,
                                [Yds |-> Num(300), TD |-> Num(2), Int |-> Num(1)], NaN))}
          [] cat = "rushing" ->
               {Row(cols, Cells("Tom QB", "NE", Str("QB"),
                                [Yds |-> Num(10), TD |-> Num(1)], NaN)),
                Row(cols, Cells("Al RB", "NE", Str("RB"),
                                [Yds |-> Num(20), TD |-> Num(0)], Num(1)))}
          [] OTHER ->
               {Row(cols, Cells("Al RB", "NE", Str("RB"),
                                [Rec |-> Num(5), Yds |-> Num(50), TD |-> Num(1)], Num(2))),
                Row(cols, Cells("Al RB", "KC", NaN,
                                [Rec |-> Num(2), Yds |-> Num(15), TD |-> Num(0)], NaN))}

\* The tables of length at most n over the rows of a set.
RECURSIVE SeqsUpTo(_, _)
SeqsUpTo(rows, n) ==
    IF n = 0 THEN {<<>>}
    ELSE LET shorter == SeqsUpTo(rows, n - 1)
         IN  shorter \cup {Append(t, r) : t \in shorter, r \in rows}

\* The tables of the other seasons: Tom QB passes and rushes, Al RB rushes and
\* catches, with yardage that differs from season to season.
SeasonTable(year, cat, extras) ==
    LET cols == Schema(cat, extras)
        y == year - (current_year - 4)
    IN  DataFrame(cols,
          CASE cat = "passing" ->
                 <<Row(cols, Cells("Tom QB", "NE", Str("QB"),
                                   [Yds |-> Num(25 * y), TD |-> Num(1), Int |-> Num(0)], NaN))>>
            [] cat = "rushing" ->
                 <<Row(cols, Cells("Tom QB", "NE", Str("QB"),
                                   [Yds |-> Num(10), TD |-> Num(0)], Num(1))),
                   Row(cols, Cells("Al RB", "NE", Str("RB"),
                                   [Yds |-> Num(20), TD |-> Num(1)], NaN))>>
            [] cat = "receiving" ->
                 <<Row(cols, Cells("Al RB", "NE", Str("RB"),
                                   [Rec |-> Num(y), Yds |-> Num(5 * y), TD |-> Num(0)], NaN))>>
            [] OTHER ->
                 <<Row(cols, Cells("Bo LB", "KC", NaN, [Int |-> Num(1)], NaN))>>)

\* The header row the provider repeats inside its tables, and an empty row.
HeaderRow(cols) == [c \in Range(cols) |-> Str(c)]

EmptyRow(cols) == [c \in Range(cols) |-> NaN]

\* What read_html gives for a page: the season's table with a repeated header
\* row after its first row and an empty row at its end; next to a header row
\* every cell is read as text.
Page(year, cat, extras) ==
    LET t == SeasonTable(year, cat, extras)
        asText(r) == [c \in Range(t.cols) |->
                         IF IsNaN(r[c]) THEN NaN ELSE Str(CellText(r[c]).s)]
    IN  [found |-> TRUE,
         table |-> DataFrame(t.cols,
                     <<asText(t.rows[1]), HeaderRow(t.cols)>>
                     \o [i \in 1 .. Len(t.rows) - 1 |-> asText(t.rows[i + 1])]
                     \o <<EmptyRow(t.cols)>>)]

NoTable == [found |-> FALSE, table |-> DataFrame(<<>>, <<>>)]

Site(extras) == [y \in Years |-> [cat \in Range(Categories) |-> Page(y, cat, extras)]]

\* The rows the varied page of SpecCollect draws from.
PageRowChoices(cols) ==
    {HeaderRow(cols), EmptyRow(cols),
     Row(cols, Cells("Tom QB", "NE", NaN, [Yds |-> Str("25"), TD |-> Str("1"), Int |-> NaN], NaN)),
     Row(cols, Cells("Al RB", "NE", NaN, [Yds |-> NaN, TD |-> NaN, Int |-> NaN], NaN)),
     Row(cols, [Player |-> NaN, Tm |-> NaN, Yds |-> NaN, TD |-> NaN, Int |-> Str("1")])}

-----------------------------------------------------------------------------
(* Specifications *)

Idle ==
    /\ cpc = "idle" /\ cyear = current_year - 4 /\ ccat = 1
    /\ scraped = <<>> /\ written = {}
    /\ mpc = "idle" /\ myear = current_year - 4
    /\ all_players = <<>> /\ all_players_df = DataFrame(<<>>, <<>>)
    /\ apc = "idle" /\ df = DataFrame(<<>>, <<>>) /\ top_players = <<>>

\* The whole pipeline from a filesystem without a data directory; the provider
\* serves every page, or misses one table.
Init ==
    /\ Idle
    /\ dirs = {}
    /\ files = <<>>
    /\ \E extras \in BOOLEAN :
          web \in {Site(extras),
                   [Site(extras) EXCEPT ![current_year - 2]["rushing"] = NoTable]}

Next == CollectorNext \/ MergerNext \/ AnalyzerStart

Spec == Init /\ [][Next]_vars

\* The Collector alone, the first page it fetches being any small table.
InitCollect ==
    /\ Idle
    /\ dirs = {}
    /\ files = <<>>
    /\ \E t \in SeqsUpTo(PageRowChoices(Schema("passing", FALSE)), MaxPageRows) :
          web = [Site(FALSE) EXCEPT ![current_year - 4]["passing"] =
                    [found |-> TRUE, table |-> DataFrame(Schema("passing", FALSE), t)]]

SpecCollect == InitCollect /\ [][CollectorNext]_vars

\* The raw files of a season as the Collector writes them.
SeasonFiles(fs, year, tables) ==
    [p \in DOMAIN fs \cup {RawFile(year, MergedCategories[k]) : k \in 1 .. 3} |->
        IF \E k \in 1 .. 3 : p = RawFile(year, MergedCategories[k])
        THEN to_csv(tables[CHOOSE k \in 1 .. 3 : p = RawFile(year, MergedCategories[k])])
        ELSE fs[p]]

RECURSIVE FixedFiles(_, _)
FixedFiles(year, extras) ==
    IF year > current_year THEN <<>>
    ELSE SeasonFiles(FixedFiles(year + 1, extras), year,
                     [k \in 1 .. 3 |-> SeasonTable(year, MergedCategories[k], extras)])

\* One run of the Merger, on raw files whose first season holds any small
\* tables.
InitMerge ==
    /\ cpc = "idle" /\ cyear = current_year - 4 /\ ccat = 1
    /\ scraped = <<>> /\ written = {}
    /\ mpc = "load" /\ myear = current_year - 4
    /\ all_players = <<>> /\ all_players_df = DataFrame(<<>>, <<>>)
    /\ apc = "idle" /\ df = DataFrame(<<>>, <<>>) /\ top_players = <<>>
    /\ web = Site(FALSE)
    /\ dirs = {"data", "data/raw", ProcessedDir} \cup {RawDir(y) : y \in Years}
    /\ \E extras \in BOOLEAN :
       \E p \in SeqsUpTo(RowChoices("passing", extras), MaxRows) :
       \E r \in SeqsUpTo(RowChoices("rushing", extras), MaxRows) :
       \E c \in SeqsUpTo(RowChoices("receiving", extras), MaxRows) :
          files = SeasonFiles(FixedFiles(current_year - 3, extras), current_year - 4,
                              <<DataFrame(Schema("passing", extras), p),
                                DataFrame(Schema("rushing", extras), r),
                                DataFrame(Schema("receiving", extras), c)>>)

NextMerge == Load \/ Concat \/ Scale \/ Save

SpecMerge == InitMerge /\ [][NextMerge]_vars

\* The dataset of SpecAnalyze: np players with one row each, the points of
\* player i being 0.5 * ((a * i) % 7 - 3), and extra rows after them.
Dataset(np, a, extra) ==
    DataFrame(<<"Player", "Tm", "FantasyPoints">>,
              [i \in 1 .. np |->
                  [Player |-> Str(PlayerName(i)), Tm |-> Str("NE"),
                   FantasyPoints |-> Centi(50 * (((a * i) % 7) - 3))]]
              \o extra)

ExtraRowChoices(np) ==
    {[Player |-> Str(PlayerName(i)), Tm |-> Str("KC"), FantasyPoints |-> Centi(c)] :
        i \in {1, np}, c \in {500, -125}}

\* The Analyzer alone, on a dataset file of any number of players.
InitAnalyze ==
    /\ Idle
    /\ web = Site(FALSE)
    /\ dirs = {"data", ProcessedDir}
    /\ \E np \in 1 .. MaxPlayers : \E a \in 0 .. 2 :
       \E extra \in SeqsUpTo(ExtraRowChoices(np), MaxExtra) :
          files = WriteFile(<<>>, ProcessedFile, to_csv(Dataset(np, a, extra)))

NextAnalyze == AnalyzerStart \/ Heatmap \/ Rank

SpecAnalyze == InitAnalyze /\ [][NextAnalyze]_vars

-----------------------------------------------------------------------------
(* Properties of load_and_preprocess_data *)

\* The season of the k-th record of all_players.
SeasonYear(k) == current_year - 4 + (k - 1)

RowKey(r) == <<r["Player"], r["Tm"]>>

KeysOf(frame) == {RowKey(r) : r \in Range(frame.rows)}

\* No row: the player is absent from the table.
Absent == <<>>

\* The rows of a table with the key, or Absent when there is none.
Matching(frame, key) ==
    LET m == {r \in Range(frame.rows) : RowKey(r) = key}
    IN  IF m = {} THEN {Absent} ELSE m

\* The statistic c of a row as a whole number, 0 when absent or empty.
Stat(r, c) == IF DOMAIN r = {} THEN 0 ELSE IF IsNaN(r[c]) THEN 0 ELSE r[c].c \div 100

\* C1: every row of a season record has 100 * FantasyPoints = 4*PassYards +
\* 400*PassTD - 200*Int + 10*RushYards + 600*RushTD + 100*Rec + 10*RecYards +
\* 600*RecTD over the player's rows of the passing, rushing and receiving
\* tables, a statistic of a table the player is absent from counting 0.
C1_FantasyPointsFormula ==
    \A k \in DOMAIN all_players :
      \A r \in Range(all_players[k].rows) :
        \E p \in Matching(RawTable(files, SeasonYear(k), "passing"), RowKey(r)) :
        \E u \in Matching(RawTable(files, SeasonYear(k), "rushing"), RowKey(r)) :
        \E v \in Matching(RawTable(files, SeasonYear(k), "receiving"), RowKey(r)) :
           r["FantasyPoints"] =
              Centi(4 * Stat(p, "Yds") + 400 * Stat(p, "TD") - 200 * Stat(p, "Int")
                    + 10 * Stat(u, "Yds") + 600 * Stat(u, "TD")
                    + 100 * Stat(v, "Rec") + 10 * Stat(v, "Yds") + 600 * Stat(v, "TD"))

\* A season record holds the player with 300, 2, 1, 20, 0, 5, 50, 1 at 36
\* points, and a player of the receiving table alone at 3.5 points.
C1_Witness ==
    /\ all_players # <<>>
    /\ \E r \in Range(all_players[1].rows) :
          /\ RowKey(r) = <<Str("Al RB"), Str("NE")>>
          /\ r["Yds_pass"] = Num(300) /\ r["Yds_rush"] = Num(20) /\ r["Yds"] = Num(50)
          /\ r["FantasyPoints"] = Num(36)
    /\ \E r \in Range(all_players[1].rows) :
          /\ RowKey(r) = <<Str("Al RB"), Str("KC")>>
          /\ r["FantasyPoints"] = Centi(350)

SourceKeys(k) ==
    [c \in Range(MergedCategories) |-> KeysOf(RawTable(files, SeasonYear(k), c))]

Unique(frame) == Cardinality(KeysOf(frame)) = Len(frame.rows)

\* C2: the (Player, Tm) keys of a season record are the union of the keys of
\* the three tables, and when no table repeats a key the record holds one row
\* per key.
C2_OuterJoinKeys ==
    \A k \in DOMAIN all_players :
        /\ KeysOf(all_players[k]) =
              SourceKeys(k)["passing"] \cup SourceKeys(k)["rushing"]
              \cup SourceKeys(k)["receiving"]
        /\ (\A c \in Range(MergedCategories) : Unique(RawTable(files, SeasonYear(k), c)))
              => Unique(all_players[k])

\* A season record of three players, one of them in the receiving table only
\* and one in the passing and rushing tables only.
C2_Witness ==
    /\ all_players # <<>>
    /\ Len(all_players[1].rows) = 3
    /\ Unique(all_players[1])
    /\ <<Str("Al RB"), Str("KC")>> \in
          SourceKeys(1)["receiving"] \ (SourceKeys(1)["passing"] \cup SourceKeys(1)["rushing"])
    /\ <<Str("Tom QB"), Str("NE")>> \in
          (SourceKeys(1)["passing"] \cap SourceKeys(1)["rushing"]) \ SourceKeys(1)["receiving"]

\* The columns of a season record that come from each table.
ColumnsFrom ==
    [passing |-> {"Yds_pass", "TD_pass", "Int", "Pos_pass"},
     rushing |-> {"Yds_rush", "TD_rush", "Pos_rush", "Fmb_x"},
     receiving |-> {"Rec", "Yds", "TD", "Pos", "Fmb_y"}]

StatColumns(k, cat) == Range(files[RawFile(SeasonYear(k), cat)].cols) \ {"Player", "Tm"}

\* The names the columns of the passing and the rushing table take in the
\* first join: a name of both tables with _pass and with _rush.
FirstJoinColumns(k) ==
    LET both == StatColumns(k, "passing") \cap StatColumns(k, "rushing")
    IN  {c \o "_pass" : c \in both} \cup {c \o "_rush" : c \in both}
        \cup ((StatColumns(k, "passing") \cup StatColumns(k, "rushing")) \ both)

\* The column names on both sides of the second join.
SecondJoinCollisions(k) == FirstJoinColumns(k) \cap StatColumns(k, "receiving")

\* The cell c of a source row after the zero fill.
Filled(r, c) == IF DOMAIN r = {} THEN Num(0) ELSE IF IsNaN(r[c]) THEN Num(0) ELSE r[c]

NoDuplicates(s) == Cardinality(Range(s)) = Len(s)

\* C10 as stated: the columns of the first join are suffixed _pass and _rush,
\* and a column name on both sides of the second join is not suffixed: the
\* season record keeps the plain name.
C10_SecondJoinUnsuffixed ==
    \A k \in DOMAIN all_players :
        /\ FirstJoinColumns(k) \ SecondJoinCollisions(k) \subseteq Range(all_players[k].cols)
        /\ SecondJoinCollisions(k) \subseteq Range(all_players[k].cols)

\* C10, amended: the columns of the first join are suffixed _pass and _rush;
\* a column name on both sides of the second join is suffixed too, _x for the
\* column of the first join and _y for the receiving column, and the plain
\* name is not a column of the season record; every receiving column holds
\* the receiving table's values and every _x column the first join's.
C10_SecondJoinSuffixed ==
    \A k \in DOMAIN all_players :
      LET cols == Range(all_players[k].cols)
          hit == SecondJoinCollisions(k)
          rname(c) == IF c \in hit THEN c \o "_y" ELSE c
      IN  /\ NoDuplicates(all_players[k].cols)
          /\ FirstJoinColumns(k) \ hit \subseteq cols
          /\ \A c \in hit : c \o "_x" \in cols /\ c \o "_y" \in cols /\ c \notin cols
          /\ \A r \in Range(all_players[k].rows) :
               /\ \E v \in Matching(RawTable(files, SeasonYear(k), "receiving"), RowKey(r)) :
                     \A c \in StatColumns(k, "receiving") : r[rname(c)] = Filled(v, c)
               /\ \E p \in Matching(RawTable(files, SeasonYear(k), "passing"), RowKey(r)) :
                  \E u \in Matching(RawTable(files, SeasonYear(k), "rushing"), RowKey(r)) :
                     \A c \in hit :
                        r[c \o "_x"] = IF c \in StatColumns(k, "passing")
                                       THEN Filled(p, c) ELSE Filled(u, c)

\* A season record whose rushing and receiving tables both hold Fmb: a row
\* holds the rushing count in Fmb_x and the receiving count in Fmb_y, next to
\* Yds_pass, Yds_rush and the receiving Yds.
C10_Witness ==
    /\ all_players # <<>>
    /\ SecondJoinCollisions(1) = {"Fmb"}
    /\ {"Yds_pass", "Yds_rush", "Yds"} \subseteq Range(all_players[1].cols)
    /\ \E r \in Range(all_players[1].rows) : r["Fmb_x"] = Num(1) /\ r["Fmb_y"] = Num(2)

-----------------------------------------------------------------------------
(* Properties of the Merger's loop, concat and scale_features *)

\* The rows of all seasons before season k.
RECURSIVE Offset(_)
Offset(k) == IF k = 1 THEN 0 ELSE Offset(k - 1) + Len(all_players[k - 1].rows)

TotalRows == Offset(Len(all_players) + 1)

\* The season records are all loaded and concatenated.
Concatenated == mpc \in {"scale", "save", "done"}

\* The dataset is scaled.
Scaled == mpc \in {"save", "done"}

\* C5: the dataset holds the five seasons current_year-4 .. current_year, its
\* row count is the sum of the season records' row counts, before and after
\* the scaling and in the file; the i-th row of season k, which is stamped
\* with the year of season k, is row Offset(k) + i of the dataset, and after
\* the scaling that row still holds its Player and Tm and a Year that is
\* later exactly when the season is.
C5_ConcatenationComplete ==
    /\ \A k \in DOMAIN all_players :
          \A r \in Range(all_players[k].rows) : r["Year"] = Num(SeasonYear(k))
    /\ Concatenated =>
          /\ Len(all_players) = 5
          /\ SeasonYear(Len(all_players)) = current_year
          /\ Len(all_players_df.rows) = TotalRows
          /\ \A k \in DOMAIN all_players : \A i \in DOMAIN all_players[k].rows :
                LET r == all_players[k].rows[i]
                    row == all_players_df.rows[Offset(k) + i]
                IN  /\ row["Player"] = r["Player"] /\ row["Tm"] = r["Tm"]
                    /\ ~Scaled => \A c \in Range(all_players[k].cols) : row[c] = r[c]
                    /\ Scaled =>
                          \A k2 \in DOMAIN all_players : \A j \in DOMAIN all_players[k2].rows :
                             (k < k2) <=> (row["Year"].d <
                                           all_players_df.rows[Offset(k2) + j]["Year"].d)
    /\ mpc = "done" => Len(files[ProcessedFile].rows) = TotalRows

\* The Merger is done: every season holds rows, and the first season more
\* than the others do.
C5_Witness ==
    /\ mpc = "done"
    /\ \A k \in DOMAIN all_players : all_players[k].rows # <<>>
    /\ Len(all_players[1].rows) = 4
    /\ Len(all_players_df.rows) = 12

\* The dataset before scale_features.
Unscaled == concat(all_players)

Varies(cells) == \E i, j \in DOMAIN cells : cells[i] # cells[j]

\* C7: after scale_features every column without text whose values differ
\* holds (value - mean) / standard deviation, mean and standard deviation
\* taken once over all rows of all seasons: all its cells have one scale,
\* their mean is 0, their standard deviation 1, each is proportional to the
\* value's deviation from the mean of the column and values keep their order;
\* FantasyPoints and Year are such columns; a column with text is unchanged.
C7_Normalization ==
    Scaled =>
      LET N == Len(all_players_df.rows)
          pre == Unscaled
      IN  /\ all_players_df.cols = pre.cols
          /\ N = Len(pre.rows)
          /\ \A c \in Range(pre.cols) :
               LET x == Column(pre, c)
                   z == Column(all_players_df, c)
                   S == SumSeq([i \in 1 .. N |-> x[i].c])
               IN  IF \E i \in 1 .. N : x[i].t = "str" THEN z = x
                   ELSE Varies(x) =>
                     /\ \A i \in 1 .. N : z[i].t = "std" /\ z[i].ss = z[1].ss /\ z[i].n = z[1].n
                     /\ SumSeq([i \in 1 .. N |-> z[i].d]) = 0
                     /\ z[1].n * SumSeq([i \in 1 .. N |-> z[i].d * z[i].d]) = N * z[1].ss
                     /\ \A i, j \in 1 .. N :
                           /\ z[i].d * (N * x[j].c - S) = z[j].d * (N * x[i].c - S)
                           /\ (x[i].c < x[j].c) <=> (z[i].d < z[j].d)
          /\ Varies(Column(pre, "FantasyPoints")) /\ Varies(Column(pre, "Year"))

\* A scaled dataset with a text column and 0 cells in it, whose first season
\* holds two players of different FantasyPoints.
C7_Witness ==
    /\ mpc = "done"
    /\ "Pos_pass" \in Range(all_players_df.cols)
    /\ \E i, j \in DOMAIN all_players_df.rows :
          /\ all_players_df.rows[i]["Pos_pass"] = Str("QB")
          /\ all_players_df.rows[j]["Pos_pass"] = Num(0)
    /\ Len(all_players[1].rows) = 2
    /\ all_players[1].rows[1]["FantasyPoints"] # all_players[1].rows[2]["FantasyPoints"]
    /\ all_players_df.rows[1]["FantasyPoints"].d # all_players_df.rows[2]["FantasyPoints"].d

-----------------------------------------------------------------------------
(* Properties of the Collector *)

\* The rows scrape_table is to keep: no repeated header, not entirely empty.
KeptRows(parsed) ==
    {i \in DOMAIN parsed.rows :
        /\ parsed.rows[i]["Player"] # Str("Player")
        /\ \E c \in Range(parsed.cols) : ~IsNaN(parsed.rows[i][c])}

\* rows holds the rows of parsed numbered in keep, in their order, each as
\* shown by show.
IsFilterOf(rows, parsed, keep, show(_)) ==
    /\ Len(rows) = Cardinality(keep)
    /\ \A i \in keep : rows[Cardinality({m \in keep : m <= i})] = show(parsed.rows[i])

AsIs(r) == r

AsText(r) == [c \in DOMAIN r |-> CellText(r[c])]

\* C4: the table scrape_table returns for a page, and every file the
\* Collector has written, holds no row whose Player is "Player" and no
\* entirely empty row, and holds every other row of the page in its order.
C4_HeaderRowFilter ==
    /\ \A k \in DOMAIN scraped :
          LET parsed == web[cyear][Categories[k]].table
          IN  /\ IsFilterOf(scraped[k].rows, parsed, KeptRows(parsed), AsIs)
              /\ \A r \in Range(scraped[k].rows) :
                    /\ r["Player"] # Str("Player")
                    /\ \E c \in DOMAIN r : ~IsNaN(r[c])
    /\ \A y \in Years : \A k \in DOMAIN Categories :
          RawFile(y, Categories[k]) \in written =>
             LET parsed == web[y][Categories[k]].table
                 text == files[RawFile(y, Categories[k])]
             IN  /\ IsFilterOf(text.rows, parsed, KeptRows(parsed), AsText)
                 /\ \A r \in Range(text.rows) :
                       /\ r["Player"] # Txt("Player")
                       /\ \E c \in DOMAIN r : r[c] # Txt("")

\* The first page holds a row, a repeated header row and an empty row; its
\* file is written and holds the one row.
C4_Witness ==
    LET parsed == web[current_year - 4]["passing"].table
        path == RawFile(current_year - 4, "passing")
    IN  /\ path \in written
        /\ Len(parsed.rows) = 3
        /\ parsed.rows[1]["Player"] = Str("Player")
        /\ \A c \in Range(parsed.cols) : IsNaN(parsed.rows[2][c])
        /\ IsNaN(parsed.rows[3]["Player"]) /\ parsed.rows[3]["Int"] = Str("1")
        /\ Len(files[path].rows) = 1
        /\ files[path].rows[1]["Int"] = Txt("1")

FilesOfYear(y) == {RawFile(y, Categories[k]) : k \in DOMAIN Categories}

FilesBefore(y) == UNION {FilesOfYear(x) : x \in {x \in Years : x < y}}

SeasonDirs == {RawDir(y) : y \in Years}

\* What holds of the Collector at each position.
CollectorState ==
    /\ cyear \in Years /\ ccat \in DOMAIN Categories
    /\ written \subseteq DOMAIN files
    /\ dirs \subseteq {"data", "data/raw"} \cup SeasonDirs
    /\ \A y \in Years : FilesOfYear(y) \cap DOMAIN files # {} => RawDir(y) \in dirs
    /\ \A p \in FilesBefore(cyear) :
          p \in written /\ \E y \in Years : y < cyear /\ RawDir(y) \in dirs
    /\ cpc = "idle" => written = {}
    /\ cpc = "scrape" => Len(scraped) = ccat - 1 /\ written = FilesBefore(cyear)
    /\ cpc = "makedirs" => Len(scraped) = 4 /\ written = FilesBefore(cyear)
    /\ cpc = "to_csv" =>
          /\ Len(scraped) = 4 /\ RawDir(cyear) \in dirs
          /\ written = FilesBefore(cyear) \cup {RawFile(cyear, Categories[k]) : k \in 1 .. ccat - 1}
    /\ cpc = "aborted" => Len(scraped) < 4 /\ written = FilesBefore(cyear)
    /\ cpc = "done" =>
          /\ written = UNION {FilesOfYear(y) : y \in Years}
          /\ Cardinality(written) = 20
          /\ SeasonDirs \subseteq dirs /\ Cardinality(SeasonDirs) = 5

\* What holds of each step of the Collector.
CollectorStep ==
    /\ (cpc = "scrape" /\ ~web[cyear][Categories[ccat]].found) =>
          (cpc' = "aborted" /\ files' = files /\ dirs' = dirs /\ written' = written)
    /\ cpc = "aborted" =>
          \/ cpc' = "aborted" /\ files' = files /\ written' = written
          \/ cpc' = "scrape" /\ cyear' = current_year - 4 /\ ccat' = 1 /\ written' = {}
    /\ cyear' # cyear =>
          \/ cpc = "to_csv" /\ ccat = 4 /\ cyear' = cyear + 1
          \/ cpc \in {"done", "aborted"} /\ cyear' = current_year - 4
    /\ (written' # written /\ written' # {}) => cpc = "to_csv" /\ Len(scraped) = 4

\* C9: the Collector takes the years current_year-4 .. current_year in
\* ascending order and fetches the four tables of a year before it writes a
\* file of that year; a fetch of year Y that fails ends the run there, with
\* no retry: the run has written the four files of every earlier year, whose
\* directories exist, and no file of year Y or later; a run in which no step
\* fails ends with one directory and four files for each of the five seasons.
C9_FailFast == []CollectorState /\ [][CollectorStep]_vars

\* The run has stopped at the page without a table, the rushing page of the
\* third season, after writing the eight files of the first two seasons.
C9_Witness ==
    /\ cpc = "aborted"
    /\ cyear = current_year - 2 /\ Categories[ccat] = "rushing"
    /\ ~web[cyear]["rushing"].found
    /\ Len(scraped) = 1
    /\ Cardinality(written) = 8
    /\ RawDir(cyear) \notin dirs

-----------------------------------------------------------------------------
(* Properties of the pipeline *)

\* C6: from a filesystem without a data directory, a Collector run without a
\* failure followed by a Merger run ends with the scaled dataset of all
\* seasons in data/processed/all_players_scaled.csv; the Merger has read the
\* passing, rushing and receiving files the Collector wrote.
C6_DatasetPersisted ==
    (/\ cpc = "done"
     /\ mpc \in {"done", "aborted"}
     /\ Len(all_players) = 5)
    => /\ ProcessedFile \in DOMAIN files
       /\ files[ProcessedFile] = to_csv(all_players_df)

-----------------------------------------------------------------------------
(* Properties of the Analyzer *)

PlayersOf(frame) == {frame.rows[i]["Player"] : i \in DOMAIN frame.rows} \ {NaN}

RowsOf(frame, player) == {i \in DOMAIN frame.rows : frame.rows[i]["Player"] = player}

PointsOf(frame, player) ==
    SumSeq([i \in DOMAIN frame.rows |->
               IF i \in RowsOf(frame, player) THEN Mag(frame.rows[i]["FantasyPoints"]) ELSE 0])

\* C8: the ranking holds min(20, number of players) entries, no player twice,
\* each the mean of the player's FantasyPoints over all the player's rows, in
\* descending order of the mean, and no player left out has a greater mean
\* than a player listed.
C8_Top20Ranking ==
    apc = "done" =>
      LET players == PlayersOf(df)
          listed == {top_players[i].Player : i \in DOMAIN top_players}
          sum == Evaluated([p \in players |-> PointsOf(df, p)])
          n == Evaluated([p \in players |-> Cardinality(RowsOf(df, p))])
          MeanAtLeast(p, q) == sum[p] * n[q] >= sum[q] * n[p]
      IN  /\ Len(top_players) = IF Cardinality(players) < 20 THEN Cardinality(players) ELSE 20
          /\ Cardinality(listed) = Len(top_players)
          /\ listed \subseteq players
          /\ \A i \in DOMAIN top_players :
                /\ top_players[i].n = n[top_players[i].Player]
                /\ top_players[i].sum = sum[top_players[i].Player]
          /\ \A i, j \in DOMAIN top_players :
                i < j => MeanAtLeast(top_players[i].Player, top_players[j].Player)
          /\ \A q \in players \ listed : \A p \in listed : MeanAtLeast(p, q)

\* A dataset of 25 players, one of them with three rows, is ranked: 20
\* entries, the first with a greater mean than the last.
C8_Witness ==
    /\ apc = "done"
    /\ Cardinality(PlayersOf(df)) = 25
    /\ Len(top_players) = 20
    /\ \E p \in PlayersOf(df) : Cardinality(RowsOf(df, p)) = 3
    /\ top_players[1].sum * top_players[20].n > top_players[20].sum * top_players[1].n

=============================================================================
